---- MODULE Spec2Model ----
(***************************************************************************)
(* rl_localtime: the Rust glue of src/src/lib.rs around the forked C       *)
(* localtime engine (c_lib/localtime.c, built by src/build.rs).            *)
(*                                                                         *)
(* Converter threads call the facade (localtime, timegm, mktime); the      *)
(* engine asks for TZ through rust_getenv, reads the COsString it gets and *)
(* hands it back to rust_os_string_dealloc.  Native code may also call     *)
(* rust_getenv itself, with any name.  Setter threads call                 *)
(* std::env::set_var.  std::env guards the process environment with one    *)
(* read-write lock: var_os reads under the read lock, set_var writes under *)
(* the write lock.                                                         *)
(*                                                                         *)
(* The C engine is not among the sources; its steps (one lookup of TZ per  *)
(* localtime/mktime call, read then release of the carrier, the calendar   *)
(* arithmetic, the failure sentinel) are modelled from the specification.  *)
(***************************************************************************)
EXTENDS Integers, Sequences, FiniteSets, TLC

\* ---------------------------------------------------------------- bounds

\* Heap addresses the allocator may hand out: 1..NPtr.
NPtr == 2

Converters == {"c1", "c2"}
Setters == {"s1"}
\* The converter of the single-caller specification SpecCal.
CalConverters == {"c1"}

\* Bytes with a meaning of their own in a variable's name.
NUL == 0
EQ == 61

\* b"TZ", the variable the engine asks for and the test sets.
TZ == <<84, 90>>
\* b"A", another variable of the environment.
VarA == <<65>>
\* The variables the environment may hold.
EnvVars == {TZ, VarA}

\* Values set_var writes to TZ: byte strings without NUL ("" included).
TZValues == {<< >>, <<1, 2>>}
\* The value of A when the process starts, b"B=C", and the values set_var
\* writes to it.
VarAValue == <<66, EQ, 67>>
VarAValues == {<< >>, VarAValue}

\* The (name, name_len) arguments rust_getenv is called with: the buffers
\* b"TZ\0" and b"A=B", each with every length from 0 up to its own.  The
\* names read are "", "T", "TZ", "TZ\0", "A", "A=" and "A=B".
NameArgs ==
    {[buf |-> <<84, 90, NUL>>, len |-> n] : n \in 0..3}
        \cup {[buf |-> <<65, EQ, 66>>, len |-> n] : n \in 1..3}
\* The engine's getenv("TZ"): rust_getenv("TZ", 2).
TZName == [buf |-> <<84, 90, NUL>>, len |-> 2]
\* No name: a thread outside a lookup.
NoName == [buf |-> << >>, len |-> 0]

\* Bytes a racing, unsynchronised read of the environment could return in
\* place of a value that was ever set.
TornBytes == <<2, 1>>

\* ---------------------------------------------------------------- values

\* Option<T>: None is the empty sequence, Some(v) the one-element sequence.
None == << >>
Some(v) == <<v>>
IsSome(o) == o /= None
Unwrap(o) == o[1]

\* std::ptr::null()
NULL == 0
\* The address of `static EMPTY: c_char = 0`: not null, not on the heap.
EMPTY == -1

HeapPtrs == 1..NPtr

\* An address of the heap that holds no allocation.
FreeCell == [live |-> FALSE, bytes |-> << >>, cap |-> 0]

Max(a, b) == IF a >= b THEN a ELSE b

\* ------------------------------------------------------------- COsString

\* COsString::null()
COsString_null == [ptr |-> NULL, len |-> 0, capacity |-> 0]

\* COsString::empty()
COsString_empty == [ptr |-> EMPTY, len |-> 1, capacity |-> 0]

\* The capacity taken before the push instead of after.
PushedCapacity_Exact(n) == n

\* Vec<u8>::push on a full vector of n > 0 bytes whose capacity is n (the
\* vector var_os built with to_vec): capacity grows to max(2n, n + 1, 8).
PushedCapacity(n) == Max(Max(2 * n, n + 1), 8)

\* No terminator pushed.
PushZero_Missing(v) == v

\* vec.push(0): the bytes of the vector after the push.
PushZero(v) == Append(v, 0)

\* Without mem::forget the vector is dropped when from returns, and its
\* buffer with it.
ForgetVec_Dropped(cell) == FreeCell

\* What becomes of the vector's buffer when From<OsString>::from returns:
\* mem::forget(vec) leaves the allocation alive for the carrier.
ForgetVec(cell) == cell

\* impl From<OsString> for COsString.  value: the bytes; p: the address of
\* the vector's buffer after the push (used only when value is not empty).
\* Yields the carrier and the heap cell behind it (FreeCell when none).
FromOsString(value, p) ==
    IF value /= << >>
    THEN LET vec == PushZero(value)
         IN  [c    |-> [ptr |-> p, len |-> Len(vec),
                        capacity |-> PushedCapacity(Len(value))],
              cell |-> ForgetVec([live |-> TRUE, bytes |-> vec,
                                  cap |-> PushedCapacity(Len(value))])]
    ELSE [c |-> COsString_empty, cell |-> FreeCell]

\* unwrap_or(COsString::empty()): an unset variable taken for an empty one.
FromOption_NoneAsEmpty(value, p) ==
    IF IsSome(value)
    THEN FromOsString(Unwrap(value), p)
    ELSE [c |-> COsString_empty, cell |-> FreeCell]

\* impl From<Option<OsString>> for COsString: value.map(Into::into)
\* .unwrap_or(COsString::null())
FromOption(value, p) ==
    IF IsSome(value)
    THEN FromOsString(Unwrap(value), p)
    ELSE [c |-> COsString_null, cell |-> FreeCell]

\* The guard testing the pointer instead of the capacity.
DeallocFrees_NonNull(c) == c.ptr /= NULL

\* The guard compared the wrong way round: nothing is ever freed.
DeallocFrees_Never(c) == c.len > c.capacity

\* COsString::dealloc: whether the carrier's buffer is handed back to the
\* allocator (Vec::from_raw_parts(ptr, len, capacity), dropped at once).
DeallocFrees(c) == c.capacity > 0

\* ---------------------------------------------------------------- time_t

\* time_t is a signed 64-bit count of seconds.  A value is kept as two
\* limbs, hi * 2^30 + lo with 0 <= lo < 2^30, so that values beyond 32
\* bits (where the engine fails) can be written down.
Limb == 1073741824
TimeT(n) == [hi |-> n \div Limb, lo |-> n % Limb]
\* The integer of a value, for the values of at most 32 bits.
TimeVal(x) == x.hi * Limb + x.lo
\* 2^61 - 2^30: a time_t far beyond the years a C int can count.
FarFuture == [hi |-> 2147483647, lo |-> 0]

\* --------------------------------------------------- the engine's calendar

\* struct tm, without tm_zone (NO_TM_ZONE).
Tm(s, mi, h, d, mo, y, wd, yd, dst, off) ==
    [tm_sec |-> s, tm_min |-> mi, tm_hour |-> h, tm_mday |-> d, tm_mon |-> mo,
     tm_year |-> y, tm_wday |-> wd, tm_yday |-> yd, tm_isdst |-> dst,
     tm_gmtoff |-> off]

\* std::mem::zeroed::<libc::tm>()
ZeroedTm == Tm(0, 0, 0, 0, 0, 0, 0, 0, 0, 0)

\* F applied to the value of v, the value worked out once.
With(v, F(_)) == CHOOSE r \in {F(x) : x \in {v}} : TRUE

\* Days from 1970-01-01 to the civil date y-m-d (proleptic Gregorian),
\* m in 1..12, d any integer.
DaysFromCivil(y, m, d) ==
    LET yy  == IF m <= 2 THEN y - 1 ELSE y
        era == yy \div 400
        yoe == yy - era * 400
        mp  == IF m > 2 THEN m - 3 ELSE m + 9
        doy == (153 * mp + 2) \div 5 + d - 1
        doe == yoe * 365 + yoe \div 4 - yoe \div 100 + doy
    IN  era * 146097 + doe - 719468

\* The civil date of a day count: [y, m, d].
CivilFromDays(days) ==
    LET z   == days + 719468
        era == z \div 146097
        doe == z - era * 146097
    IN  With((doe - doe \div 1460 + doe \div 36524 - doe \div 146096) \div 365,
             LAMBDA yoe :
        With(doe - (365 * yoe + yoe \div 4 - yoe \div 100), LAMBDA doy :
        LET mp == (5 * doy + 2) \div 153
            d  == doy - (153 * mp + 2) \div 5 + 1
            m  == IF mp < 10 THEN mp + 3 ELSE mp - 9
            y  == yoe + era * 400 + (IF m <= 2 THEN 1 ELSE 0)
        IN  [y |-> y, m |-> m, d |-> d]))

\* The UTC offset of the zone the engine falls back to when TZ is unset.
\* Which zone that is lies with the engine and the platform; it is taken
\* as one apart from UTC, so that unset and empty show apart in a result.
DefaultZoneOffset == -3600

\* The zone the engine derives from the TZ value it looked up.  The zone
\* rules are the engine's own; what is fixed is that "" means UTC.  An unset
\* TZ takes the engine's default zone, other values a zone of fixed offset.
ZoneOffset(tz) ==
    IF IsSome(tz) THEN 3600 * Len(Unwrap(tz)) ELSE DefaultZoneOffset

\* A time as whole days since the epoch and seconds into the day, which
\* stays within 32 bits where a count of seconds would not.
DayTime(days, secs) == [days |-> days + secs \div 86400, sod |-> secs % 86400]

\* The time_t of a day time: days * 86400 + sod, in limbs
\* (86400 = 675 * 2^7 and Limb = 2^23 * 2^7).
TimeOfDay(d) ==
    LET a   == d.days * 675
        low == (a % 8388608) * 128 + d.sod
    IN  [hi |-> a \div 8388608 + low \div Limb, lo |-> low % Limb]

\* The day time of a time_t (2^30 = 12427 * 86400 + 49024), for the values
\* whose hi limb is within +-43000, some 1.4 million years either way.
DayOfTime(x) == DayTime(x.hi * 12427, x.hi * 49024 + x.lo)

\* The broken-down time of a day time at UTC offset off.
TimeSub(d, off) ==
    With(DayTime(d.days, d.sod + off), LAMBDA loc :
    With(CivilFromDays(loc.days), LAMBDA c :
        Tm(loc.sod % 60, (loc.sod \div 60) % 60, loc.sod \div 3600, c.d,
           c.m - 1, c.y - 1900, (4 + loc.days) % 7,
           loc.days - DaysFromCivil(c.y, 1, 1), 0, off)))

\* The day time of a broken-down UTC time, fields out of range carried
\* into the next unit.
Time1(t) ==
    LET months == t.tm_year * 12 + t.tm_mon
        y      == 1900 + months \div 12
        m      == (months % 12) + 1
    IN  DayTime(DaysFromCivil(y, m, 1) + t.tm_mday - 1,
                t.tm_hour * 3600 + t.tm_min * 60 + t.tm_sec)

\* Whether tm_year of the broken-down time fits a C int: the engine's
\* representable range, -67768040609740800 .. 67768036191676799.
Representable(x) ==
    /\ \/ x.hi > -63113907
       \/ x.hi = -63113907 /\ x.lo >= 1012205568
    /\ \/ x.hi < 63113901
       \/ x.hi = 63113901 /\ x.lo <= 1012181375

\* rl_localtime_r(&sec, &mut out) with the zone of tz: the pointer returned
\* (null on failure), what it leaves in *out and in errno.
rl_localtime_r(x, out, tz, errno) ==
    IF Representable(x)
    THEN [null |-> FALSE, out |-> TimeSub(DayOfTime(x), ZoneOffset(tz)),
          errno |-> errno]
    ELSE [null |-> TRUE, out |-> out, errno |-> "EOVERFLOW"]

\* rl_timegm(&mut tm): the time returned and the normalised *tm.
rl_timegm(t) ==
    With(Time1(t), LAMBDA d : [ret |-> TimeOfDay(d), tm |-> TimeSub(d, 0)])

\* rl_mktime(&mut tm) with the zone of tz.
rl_mktime(t, tz) ==
    With(Time1(t), LAMBDA u :
    With(DayTime(u.days, u.sod - ZoneOffset(tz)), LAMBDA d :
        [ret |-> TimeOfDay(d), tm |-> TimeSub(d, ZoneOffset(tz))]))

\* ------------------------------------------------------- the environment

\* The name taken as a C string instead: the bytes before the first NUL.
NameBytes_CStr(a) ==
    LET nuls == {i \in 1..Len(a.buf) : a.buf[i] = NUL}
    IN  IF nuls = {}
        THEN a.buf
        ELSE SubSeq(a.buf, 1, (CHOOSE i \in nuls : \A j \in nuls : i <= j) - 1)

\* The name rust_getenv reads: slice::from_raw_parts(name, name_len), the
\* name_len bytes at name, whatever follows them.
NameBytes(a) == SubSeq(a.buf, 1, a.len)

\* Whether a name holds a NUL byte: std::env::var_os cannot make a C string
\* of it and returns None without asking the environment.
HasNul(n) == \E i \in 1..Len(n) : n[i] = NUL

\* The entry "name=value" of a set variable in the environment block.
Entry(k, v) == k \o <<EQ>> \o v

StartsWith(s, p) == Len(s) >= Len(p) /\ SubSeq(s, 1, Len(p)) = p

\* libc getenv(n) on the environment e: nothing for the empty name, else
\* what follows "n=" in the entry that starts with it.
getenv(e, n) ==
    LET hits == {k \in EnvVars :
                    /\ IsSome(e[k])
                    /\ StartsWith(Entry(k, Unwrap(e[k])), n \o <<EQ>>)}
    IN  IF n = << >> \/ hits = {}
        THEN None
        ELSE LET k == CHOOSE h \in hits : TRUE
                 s == Entry(k, Unwrap(e[k]))
             IN  Some(SubSeq(s, Len(n) + 2, Len(s)))

\* ----------------------------------------------------------------- state

VARIABLES
    env,        \* the process environment: each variable's value, None or Some(bytes)
    envBusy,    \* setenv is part-way through replacing the value's storage
    readers,    \* converters holding std::env's lock for reading
    writer,     \* setters holding std::env's lock for writing
    waiting,    \* setters that found the lock taken and marked it awaited
    heap,       \* the allocator's cells, by address
    faults,     \* memory-safety violations that have happened, by kind
    pc,         \* converter: where its call stands
    op,         \* converter: the facade function it is in
    name,       \* converter: the (name, name_len) its lookup was called with
    sec,        \* converter: localtime's argument
    arg,        \* converter: the caller's own calendar value given to timegm/mktime
    tm,         \* converter: the facade's local struct tm (out, or the by-value tm)
    got,        \* converter: what var_os returned to rust_getenv
    carrier,    \* converter: the COsString in the engine's hands
    tzcopy,     \* converter: the engine's copy of the TZ value
    ret,        \* converter: what the engine returned to the facade
    errno,      \* converter: the thread's errno
    result,     \* converter: what the facade returned to its caller
    time,       \* converter: a calendar time the caller kept from localtime
    seen,       \* converter: the values TZ has had since its lookup was called,
                \* kept until the engine has read the carrier
    nalloc,     \* converter: allocations handed out in carriers during this call
    nfree,      \* converter: allocations of this call given back
    spc,        \* setter: where its set_var call stands
    skey,       \* setter: the variable it is setting
    sval        \* setter: the value it is writing

cvars == <<pc, op, name, sec, arg, tm, got, carrier, tzcopy, ret, errno,
           result, time, seen, nalloc, nfree>>
svars == <<spc, skey, sval, waiting>>
vars == <<env, envBusy, readers, writer, heap, faults, cvars, svars>>

\* Converter positions between the lookup's call and the read of the value.
LookupPending == {"var_os_lock", "var_os_read"}

Init ==
    /\ env \in {[k \in EnvVars |-> IF k = TZ THEN v ELSE Some(VarAValue)] :
                   v \in {None} \cup {Some(x) : x \in TZValues}}
    /\ envBusy = FALSE
    /\ readers = {}
    /\ writer = {}
    /\ waiting = {}
    /\ heap = [p \in HeapPtrs |-> FreeCell]
    /\ faults = {}
    /\ pc = [t \in Converters |-> "idle"]
    /\ op = [t \in Converters |-> "none"]
    /\ name = [t \in Converters |-> NoName]
    /\ sec = [t \in Converters |-> TimeT(0)]
    /\ arg = [t \in Converters |-> ZeroedTm]
    /\ tm = [t \in Converters |-> ZeroedTm]
    /\ got = [t \in Converters |-> None]
    /\ carrier = [t \in Converters |-> None]
    /\ tzcopy = [t \in Converters |-> None]
    /\ ret = [t \in Converters |-> None]
    /\ errno = [t \in Converters |-> "0"]
    /\ result = [t \in Converters |-> None]
    /\ time = [t \in Converters |-> None]
    /\ seen = [t \in Converters |-> {}]
    /\ nalloc = [t \in Converters |-> 0]
    /\ nfree = [t \in Converters |-> 0]
    /\ spc = [s \in Setters |-> "idle"]
    /\ skey = [s \in Setters |-> TZ]
    /\ sval = [s \in Setters |-> << >>]

\* ----------------------------------------------------- std::env's lock

\* A read that does not wait for the writer (a bare getenv).
CanRead_Unlocked(rs, ws) == TRUE

\* Whether the read lock can be taken: RwLock::read waits for the writer
\* holding the lock and for the writers that have marked it awaited (ws).
CanRead(rs, ws) == ws = {}

\* A write lock that waits for other writers only.
CanWrite_IgnoresReaders(rs, ws) == ws = {}

\* Whether the write lock can be taken: RwLock::write waits for everyone.
CanWrite(rs, ws) == rs = {} /\ ws = {}

\* ------------------------------------------------------------ the facade

\* One struct shared by every call, as the static buffer of C's localtime.
OutLocal_Static(t) == CHOOSE u \in Converters : TRUE

\* Whose struct the engine fills for converter t's localtime call:
\* `let mut out` is a local of the call, so the caller's own.
OutLocal(t) == t

\* localtime(sec): out = zeroed(); the engine starts and looks TZ up.
localtime(t, x) ==
    /\ pc[t] = "idle"
    /\ pc' = [pc EXCEPT ![t] = "var_os_lock"]
    /\ op' = [op EXCEPT ![t] = "localtime"]
    /\ name' = [name EXCEPT ![t] = TZName]
    /\ sec' = [sec EXCEPT ![t] = x]
    /\ tm' = [tm EXCEPT ![OutLocal(t)] = ZeroedTm]
    /\ seen' = [seen EXCEPT ![t] = {getenv(env, NameBytes(TZName))}]
    /\ UNCHANGED <<env, envBusy, readers, writer, heap, faults, arg, got,
                   carrier, tzcopy, ret, errno, result, time, nalloc, nfree,
                   svars>>

\* The calendar values a caller may hand to timegm/mktime: the given ones
\* and the one it kept from localtime.
CallerTms(t, tms) ==
    tms \cup (IF IsSome(time[t]) THEN {Unwrap(time[t]).tm} ELSE {})

\* timegm handing the engine a zeroed struct, as localtime does, instead of
\* its argument.
timegm_ZeroedCopy(t, c) ==
    /\ pc[t] = "idle"
    /\ pc' = [pc EXCEPT ![t] = "engine_compute"]
    /\ op' = [op EXCEPT ![t] = "timegm"]
    /\ arg' = [arg EXCEPT ![t] = c]
    /\ tm' = [tm EXCEPT ![t] = ZeroedTm]
    /\ UNCHANGED <<env, envBusy, readers, writer, heap, faults, name, sec,
                   got, carrier, tzcopy, ret, errno, result, time, seen,
                   nalloc, nfree, svars>>

\* timegm(tm): tm is the function's own copy; the engine needs no TZ.
timegm(t, c) ==
    /\ pc[t] = "idle"
    /\ pc' = [pc EXCEPT ![t] = "engine_compute"]
    /\ op' = [op EXCEPT ![t] = "timegm"]
    /\ arg' = [arg EXCEPT ![t] = c]
    /\ tm' = [tm EXCEPT ![t] = c]
    /\ UNCHANGED <<env, envBusy, readers, writer, heap, faults, name, sec,
                   got, carrier, tzcopy, ret, errno, result, time, seen,
                   nalloc, nfree, svars>>

\* mktime(tm): tm is the function's own copy; the engine looks TZ up.
mktime(t, c) ==
    /\ pc[t] = "idle"
    /\ pc' = [pc EXCEPT ![t] = "var_os_lock"]
    /\ op' = [op EXCEPT ![t] = "mktime"]
    /\ name' = [name EXCEPT ![t] = TZName]
    /\ arg' = [arg EXCEPT ![t] = c]
    /\ tm' = [tm EXCEPT ![t] = c]
    /\ seen' = [seen EXCEPT ![t] = {getenv(env, NameBytes(TZName))}]
    /\ UNCHANGED <<env, envBusy, readers, writer, heap, faults, sec, got,
                   carrier, tzcopy, ret, errno, result, time, nalloc, nfree,
                   svars>>

\* ----------------------------------------------------------- rust_getenv

\* Native code calls rust_getenv(name, name_len) itself.
rust_getenv(t, a) ==
    /\ pc[t] = "idle"
    /\ pc' = [pc EXCEPT ![t] = "var_os_lock"]
    /\ op' = [op EXCEPT ![t] = "rust_getenv"]
    /\ name' = [name EXCEPT ![t] = a]
    /\ seen' = [seen EXCEPT ![t] = {getenv(env, NameBytes(a))}]
    /\ UNCHANGED <<env, envBusy, readers, writer, heap, faults, sec, arg, tm,
                   got, carrier, tzcopy, ret, errno, result, time, nalloc,
                   nfree, svars>>

\* std::env::var_os, first step.  Of a name that holds a NUL byte no C
\* string can be made: var_os returns None at once.  For any other name
\* it takes the environment lock for reading.
var_os_lock(t) ==
    /\ pc[t] = "var_os_lock"
    /\ IF HasNul(NameBytes(name[t]))
       THEN /\ got' = [got EXCEPT ![t] = None]
            /\ pc' = [pc EXCEPT ![t] = "into"]
            /\ UNCHANGED readers
       ELSE /\ CanRead(readers, writer \cup waiting)
            /\ readers' = readers \cup {t}
            /\ pc' = [pc EXCEPT ![t] = "var_os_read"]
            /\ UNCHANGED got
    /\ UNCHANGED <<env, envBusy, writer, heap, faults, op, name, sec, arg, tm,
                   carrier, tzcopy, ret, errno, result, time, seen, nalloc,
                   nfree, svars>>

\* What a read of the variable n can yield: its value, or, when a setenv
\* is rewriting the environment at that moment (a data race), anything.
ReadOutcomes(n) ==
    IF envBusy
    THEN {getenv(env, n), None, Some(TornBytes)}
    ELSE {getenv(env, n)}

\* The environment after std::env::var_os has copied the value out: getenv
\* reads the variable's storage and writes nothing.
EnvAfterRead(e) == e

\* std::env::var_os, second step: getenv and the copy into an OsString.
var_os_read(t) ==
    /\ pc[t] = "var_os_read"
    /\ \E v \in ReadOutcomes(NameBytes(name[t])) :
           got' = [got EXCEPT ![t] = v]
    /\ env' = EnvAfterRead(env)
    /\ faults' = IF envBusy THEN faults \cup {"data_race"} ELSE faults
    /\ pc' = [pc EXCEPT ![t] = "var_os_unlock"]
    /\ UNCHANGED <<envBusy, readers, writer, heap, op, name, sec, arg, tm,
                   carrier, tzcopy, ret, errno, result, time, seen, nalloc,
                   nfree, svars>>

\* The read guard of std::env::var_os, kept past the return of the lookup.
ReleaseRead_Leaked(rs, t) == rs
\* The read guard of std::env::var_os is dropped when the lookup returns.
ReleaseRead(rs, t) == rs \ {t}

\* The awaited mark after a read guard is dropped, rs the readers left:
\* the last reader out clears the mark and wakes the writers, which ask
\* for the lock afresh.
WakeWriters(rs, ws) == IF rs = {} THEN {} ELSE ws

\* std::env::var_os, last step: the read guard is dropped.
var_os_unlock(t) ==
    /\ pc[t] = "var_os_unlock"
    /\ readers' = ReleaseRead(readers, t)
    /\ waiting' = WakeWriters(readers', waiting)
    /\ pc' = [pc EXCEPT ![t] = "into"]
    /\ UNCHANGED <<env, envBusy, writer, heap, faults, op, name, sec, arg, tm,
                   got, carrier, tzcopy, ret, errno, result, time, seen,
                   nalloc, nfree, spc, skey, sval>>

\* An allocator handing out addresses that are in use.
FreePtrs_Any == HeapPtrs

\* Addresses the allocator can hand out now.
FreePtrs == {p \in HeapPtrs : ~heap[p].live}

\* Whether the conversion of the looked-up value needs a heap buffer.
NeedsBuffer(value) == IsSome(value) /\ Unwrap(value) /= << >>

\* rust_getenv's `.into()`: the carrier is built and returned to the engine.
into(t) ==
    /\ pc[t] = "into"
    /\ \E p \in (IF NeedsBuffer(got[t]) THEN FreePtrs ELSE {NULL}) :
         LET r == FromOption(got[t], p)
         IN  /\ carrier' = [carrier EXCEPT ![t] = Some(r.c)]
             /\ heap' = IF r.c.ptr \in HeapPtrs
                        THEN [heap EXCEPT ![r.c.ptr] = r.cell]
                        ELSE heap
             /\ nalloc' = [nalloc EXCEPT
                             ![t] = @ + (IF r.c.ptr \in HeapPtrs THEN 1 ELSE 0)]
    /\ pc' = [pc EXCEPT ![t] = "engine_read"]
    /\ UNCHANGED <<env, envBusy, readers, writer, faults, op, name, sec, arg,
                   tm, got, tzcopy, ret, errno, result, time, seen, nfree,
                   svars>>

\* ------------------------------------------------- the engine and a carrier

\* The bytes at an address: the static zero byte, or a heap cell's bytes.
Mem(p) == IF p = EMPTY THEN <<0>> ELSE heap[p].bytes

\* Whether reading len bytes at ptr stays inside live memory.
Readable(c) ==
    \/ c.ptr = EMPTY /\ c.len <= 1
    \/ c.ptr \in HeapPtrs /\ heap[c.ptr].live /\ c.len <= Len(heap[c.ptr].bytes)

\* The value the engine copies out of a carrier: absent for the null
\* pointer, else the len bytes at ptr without the terminator.
ReadCarrier(c) ==
    IF c.ptr = NULL THEN None ELSE Some(SubSeq(Mem(c.ptr), 1, c.len - 1))

\* What the engine's copy can hold after reading the carrier; a read of
\* memory that is not live can yield anything.
CopyOutcomes(c) ==
    IF c.ptr = NULL \/ Readable(c)
    THEN {ReadCarrier(c)}
    ELSE {None, Some(<< >>), Some(TornBytes)}

\* The engine copies the TZ value out of the carrier.
engine_read(t) ==
    /\ pc[t] = "engine_read"
    /\ LET c == Unwrap(carrier[t])
       IN  /\ \E v \in CopyOutcomes(c) : tzcopy' = [tzcopy EXCEPT ![t] = v]
           /\ faults' = IF c.ptr = NULL \/ Readable(c)
                        THEN faults
                        ELSE faults \cup {"use_after_free"}
    /\ seen' = [seen EXCEPT ![t] = {}]
    /\ pc' = [pc EXCEPT ![t] = "engine_dealloc"]
    /\ UNCHANGED <<env, envBusy, readers, writer, heap, op, name, sec, arg, tm,
                   got, carrier, ret, errno, result, time, nalloc, nfree,
                   svars>>

\* Whether Vec::from_raw_parts(ptr, len, capacity) rebuilds a vector the
\* allocator can free: ptr a live allocation of that capacity, and len
\* within it.
OwnsAllocation(c) ==
    /\ c.ptr \in HeapPtrs
    /\ heap[c.ptr].live
    /\ heap[c.ptr].cap = c.capacity
    /\ c.len <= c.capacity

\* What Vec::from_raw_parts(ptr, len, capacity), dropped at once, does to
\* the heap: the heap after it and the number of cells given back.  Within
\* its contract it frees the carrier's allocation.  Outside it the
\* behaviour is undefined: the program may stop with the heap as it is, or
\* any cell may end up handed back to the allocator.
DeallocOutcomes(c) ==
    IF OwnsAllocation(c)
    THEN {[heap |-> [heap EXCEPT ![c.ptr] = FreeCell], freed |-> 1]}
    ELSE {[heap |-> heap, freed |-> 0]}
            \cup {[heap |-> [heap EXCEPT ![p] = FreeCell], freed |-> 1] :
                      p \in HeapPtrs}

\* The native side hands the carrier to rust_os_string_dealloc, which calls
\* COsString::dealloc, and keeps nothing of it.  The engine goes on to its
\* arithmetic; a direct caller of rust_getenv is done.
rust_os_string_dealloc(t) ==
    /\ pc[t] = "engine_dealloc"
    /\ LET c == Unwrap(carrier[t])
       IN  IF DeallocFrees(c)
           THEN /\ \E o \in DeallocOutcomes(c) :
                       /\ heap' = o.heap
                       /\ nfree' = [nfree EXCEPT ![t] = @ + o.freed]
                /\ faults' = IF OwnsAllocation(c)
                             THEN faults
                             ELSE faults \cup {"invalid_free"}
           ELSE UNCHANGED <<heap, nfree, faults>>
    /\ carrier' = [carrier EXCEPT ![t] = None]
    /\ pc' = [pc EXCEPT ![t] = IF op[t] = "rust_getenv"
                               THEN "returned"
                               ELSE "engine_compute"]
    /\ UNCHANGED <<env, envBusy, readers, writer, op, name, sec, arg, tm, got,
                   tzcopy, ret, errno, result, time, seen, nalloc, svars>>

\* timegm/mktime taking `tm: &mut libc::tm`: the engine writes the caller's
\* own value.
PassTm_ByReference(callers, written) == [caller |-> written, tm |-> written]

\* How the engine's rewrite of the struct it was given reaches the caller:
\* timegm and mktime take `mut tm: libc::tm` by value, so the engine writes
\* the function's copy and the caller's value stays as it was.
PassTm(callers, written) == [caller |-> callers, tm |-> written]

\* What the engine returned: a null pointer or not, and a time_t.
EngineRet(isnull, x) == [null |-> isnull, time |-> x]

\* The engine computes and returns to the facade.
engine_compute(t) ==
    /\ pc[t] = "engine_compute"
    /\ IF op[t] = "localtime"
       THEN \E r \in {rl_localtime_r(sec[t], tm[OutLocal(t)], tzcopy[t],
                                      errno[t])} :
                /\ tm' = [tm EXCEPT ![OutLocal(t)] = r.out]
                /\ errno' = [errno EXCEPT ![t] = r.errno]
                /\ ret' = [ret EXCEPT ![t] = Some(EngineRet(r.null, TimeT(0)))]
                /\ UNCHANGED arg
       ELSE \E r \in {IF op[t] = "timegm"
                      THEN rl_timegm(tm[t])
                      ELSE rl_mktime(tm[t], tzcopy[t])} :
                LET w == PassTm(arg[t], r.tm)
                IN  /\ tm' = [tm EXCEPT ![t] = w.tm]
                    /\ arg' = [arg EXCEPT ![t] = w.caller]
                    /\ ret' = [ret EXCEPT ![t] =
                                  Some(EngineRet(FALSE, r.ret))]
                    /\ UNCHANGED errno
    /\ pc' = [pc EXCEPT ![t] = "facade_return"]
    /\ UNCHANGED <<env, envBusy, readers, writer, heap, faults, op, name, sec,
                   got, carrier, tzcopy, result, time, seen, nalloc, nfree,
                   svars>>

\* ---------------------------------------------------- the facade's results

\* io::Result<libc::tm> and time_t, as one shape.
Ok(t) == [kind |-> "Ok", tm |-> t, err |-> "0", time |-> TimeT(0)]
Err(e) == [kind |-> "Err", tm |-> ZeroedTm, err |-> e, time |-> TimeT(0)]
TimeRet(x) == [kind |-> "time_t", tm |-> ZeroedTm, err |-> "0", time |-> x]

\* The null check left out: always Ok(out).
localtime_result_Unchecked(r, out, e) == Ok(out)

\* The engine handed a temporary instead of out: Ok of the zeroed struct.
localtime_result_Stale(r, out, e) == IF r.null THEN Err(e) ELSE Ok(ZeroedTm)

\* localtime's result: Err(io::Error::last_os_error()) when the engine
\* returned null, Ok(out) otherwise.
localtime_result(r, out, e) == IF r.null THEN Err(e) ELSE Ok(out)

\* The facade function returns to its caller.
facade_return(t) ==
    /\ pc[t] = "facade_return"
    /\ result' = [result EXCEPT
                    ![t] = Some(IF op[t] = "localtime"
                                THEN localtime_result(Unwrap(ret[t]),
                                                      tm[OutLocal(t)],
                                                      errno[t])
                                ELSE TimeRet(Unwrap(ret[t]).time))]
    /\ pc' = [pc EXCEPT ![t] = "returned"]
    /\ UNCHANGED <<env, envBusy, readers, writer, heap, faults, op, name, sec,
                   arg, tm, got, carrier, tzcopy, ret, errno, time, seen,
                   nalloc, nfree, svars>>

\* The caller takes the result; keep: it keeps a calendar time it got
\* (`let time = localtime(0).unwrap()`), with the epoch and the TZ value it
\* came from.
caller_take(t, keep) ==
    /\ pc[t] = "returned"
    /\ time' = IF keep /\ IsSome(result[t]) /\ Unwrap(result[t]).kind = "Ok"
               THEN [time EXCEPT ![t] = Some([tm |-> Unwrap(result[t]).tm,
                                              sec |-> sec[t], tz |-> got[t]])]
               ELSE time
    /\ pc' = [pc EXCEPT ![t] = "idle"]
    /\ op' = [op EXCEPT ![t] = "none"]
    /\ name' = [name EXCEPT ![t] = NoName]
    /\ sec' = [sec EXCEPT ![t] = TimeT(0)]
    /\ arg' = [arg EXCEPT ![t] = ZeroedTm]
    /\ tm' = [tm EXCEPT ![t] = ZeroedTm]
    /\ got' = [got EXCEPT ![t] = None]
    /\ tzcopy' = [tzcopy EXCEPT ![t] = None]
    /\ ret' = [ret EXCEPT ![t] = None]
    /\ result' = [result EXCEPT ![t] = None]
    /\ nalloc' = [nalloc EXCEPT ![t] = 0]
    /\ nfree' = [nfree EXCEPT ![t] = 0]
    /\ UNCHANGED <<env, envBusy, readers, writer, heap, faults, carrier,
                   errno, seen, svars>>

\* --------------------------------------------------- std::env::set_var

\* set_var(k, v) is called, k a variable's name and v a value without NUL.
set_var(s, k, v) ==
    /\ spc[s] = "idle"
    /\ spc' = [spc EXCEPT ![s] = "set_var_lock"]
    /\ skey' = [skey EXCEPT ![s] = k]
    /\ sval' = [sval EXCEPT ![s] = v]
    /\ UNCHANGED <<env, envBusy, readers, writer, waiting, heap, faults,
                   cvars>>

\* set_var takes the environment lock for writing.
set_var_lock(s) ==
    /\ spc[s] = "set_var_lock"
    /\ CanWrite(readers, writer)
    /\ writer' = writer \cup {s}
    /\ waiting' = waiting \ {s}
    /\ spc' = [spc EXCEPT ![s] = "setenv_begin"]
    /\ UNCHANGED <<env, envBusy, readers, heap, faults, cvars, skey, sval>>

\* set_var finds the lock taken: it marks the lock awaited and sleeps
\* until the lock is let go.
set_var_wait(s) ==
    /\ spc[s] = "set_var_lock"
    /\ ~CanWrite(readers, writer)
    /\ s \notin waiting
    /\ waiting' = waiting \cup {s}
    /\ UNCHANGED <<env, envBusy, readers, writer, heap, faults, cvars, spc,
                   skey, sval>>

\* setenv starts replacing the variable's storage.
setenv_begin(s) ==
    /\ spc[s] = "setenv_begin"
    /\ envBusy' = TRUE
    /\ spc' = [spc EXCEPT ![s] = "setenv_store"]
    /\ UNCHANGED <<env, readers, writer, waiting, heap, faults, cvars, skey,
                   sval>>

\* setenv has stored the new value.
setenv_store(s) ==
    /\ spc[s] = "setenv_store"
    /\ env' = [env EXCEPT ![skey[s]] = Some(sval[s])]
    /\ envBusy' = FALSE
    /\ seen' = [t \in Converters |->
                  IF pc[t] \in LookupPending
                  THEN seen[t] \cup {getenv(env', NameBytes(name[t]))}
                  ELSE seen[t]]
    /\ spc' = [spc EXCEPT ![s] = "set_var_unlock"]
    /\ UNCHANGED <<readers, writer, heap, faults, pc, op, name, sec, arg, tm,
                   got, carrier, tzcopy, ret, errno, result, time, nalloc,
                   nfree, skey, sval, waiting>>

\* set_var drops the write guard and returns.
set_var_unlock(s) ==
    /\ spc[s] = "set_var_unlock"
    /\ writer' = writer \ {s}
    /\ spc' = [spc EXCEPT ![s] = "idle"]
    /\ skey' = [skey EXCEPT ![s] = TZ]
    /\ sval' = [sval EXCEPT ![s] = << >>]
    /\ UNCHANGED <<env, envBusy, readers, waiting, heap, faults, cvars>>

\* -------------------------------------------------------- specifications

\* Arguments of the calls.
Epoch0 == TimeT(0)
Epoch0Tm == TimeSub(DayTime(0, 0), 0)
\* 2000-02-29 00:00:00 UTC.
LeapDay == TimeT(951782400)
\* 10000-01-01 00:00:00 UTC, 253402300800: beyond 32 bits.
Y10K == [hi |-> 235, lo |-> 1072972160]
CalEpochs == {Epoch0, TimeT(-1), LeapDay, Y10K, FarFuture}
\* 1969-12-31 23:59:60 and 2000-01-32, neither normalised.
CarrySecTm == Tm(60, 59, 23, 31, 11, 69, 0, 0, 0, 0)
CarryDayTm == Tm(0, 0, 0, 32, 0, 100, 0, 0, 0, 0)
CalTms == {Epoch0Tm, CarrySecTm, CarryDayTm}

ConverterStep(t, epochs, tms, keeps) ==
    \/ \E x \in epochs : localtime(t, x)
    \/ \E c \in CallerTms(t, tms) : timegm(t, c)
    \/ \E c \in CallerTms(t, tms) : mktime(t, c)
    \/ var_os_lock(t)
    \/ var_os_read(t)
    \/ var_os_unlock(t)
    \/ into(t)
    \/ engine_read(t)
    \/ rust_os_string_dealloc(t)
    \/ engine_compute(t)
    \/ facade_return(t)
    \/ \E keep \in keeps : caller_take(t, keep)

\* The (variable, value) pairs the test's setter writes, and those of a
\* setter that writes the other variable too.
TZSets == {<<TZ, v>> : v \in TZValues}
EnvSets == TZSets \cup {<<VarA, v>> : v \in VarAValues}

SetterStep(s, sets) ==
    \/ \E kv \in sets : set_var(s, kv[1], kv[2])
    \/ set_var_lock(s)
    \/ set_var_wait(s)
    \/ setenv_begin(s)
    \/ setenv_store(s)
    \/ set_var_unlock(s)

\* Two converters and a setter, every call on the epoch (timegm and mktime
\* on a calendar time the engine has to normalise).
Next ==
    \/ \E t \in Converters : ConverterStep(t, {Epoch0}, {CarrySecTm}, {FALSE})
    \/ \E s \in Setters : SetterStep(s, TZSets)

Spec == Init /\ [][Next]_vars

\* One converter, which may keep what localtime gave it, and a setter.
NextCal ==
    \/ \E t \in CalConverters : ConverterStep(t, CalEpochs, CalTms, {TRUE, FALSE})
    \/ \E s \in Setters : SetterStep(s, TZSets)

SpecCal == Init /\ [][NextCal]_vars

\* Native code calling the accessor itself: a lookup under any name, the
\* read of the carrier and its release.
NativeStep(t) ==
    \/ \E a \in NameArgs : rust_getenv(t, a)
    \/ var_os_lock(t)
    \/ var_os_read(t)
    \/ var_os_unlock(t)
    \/ into(t)
    \/ engine_read(t)
    \/ rust_os_string_dealloc(t)
    \/ caller_take(t, FALSE)

\* Two native callers of rust_getenv and a setter of both variables.
NextEnv ==
    \/ \E t \in Converters : NativeStep(t)
    \/ \E s \in Setters : SetterStep(s, EnvSets)

SpecEnv == Init /\ [][NextEnv]_vars

\* The epochs of the localtime calls of SpecDet.
DetEpochs == {Epoch0, LeapDay}
\* The converter of SpecDet that may keep what localtime gave it.
DetKeeper == "c1"

\* A converter that calls localtime only.
LocaltimeStep(t) ==
    \/ \E x \in DetEpochs : localtime(t, x)
    \/ var_os_lock(t)
    \/ var_os_read(t)
    \/ var_os_unlock(t)
    \/ into(t)
    \/ engine_read(t)
    \/ rust_os_string_dealloc(t)
    \/ engine_compute(t)
    \/ facade_return(t)
    \/ \E keep \in {FALSE, t = DetKeeper} : caller_take(t, keep)

\* Two converters calling localtime on two epochs, one of them keeping
\* results, and a setter.
NextDet ==
    \/ \E t \in Converters : LocaltimeStep(t)
    \/ \E s \in Setters : SetterStep(s, TZSets)

SpecDet == Init /\ [][NextDet]_vars

\* The steps a converter thread takes by itself once its call has begun,
\* except the acquisition of the environment lock.
ConverterRun(t) ==
    \/ var_os_read(t)
    \/ var_os_unlock(t)
    \/ into(t)
    \/ engine_read(t)
    \/ rust_os_string_dealloc(t)
    \/ engine_compute(t)
    \/ facade_return(t)

\* The steps a setter thread takes by itself once it holds the lock.
SetterRun(s) ==
    \/ setenv_begin(s)
    \/ setenv_store(s)
    \/ set_var_unlock(s)

\* Fair scheduling: a thread that can take its next step, and can go on
\* taking it, takes it.  A thread inside a call keeps running, a setter
\* that finds the lock taken gets to mark it, and a thread asking for the
\* environment lock gets it if the lock stays free for it.  Nothing says
\* which of the threads asking for the lock gets it.  Callers are free to
\* stop calling.
Fairness ==
    /\ \A t \in Converters :
           /\ WF_vars(ConverterRun(t))
           /\ WF_vars(var_os_lock(t))
    /\ \A s \in Setters :
           /\ WF_vars(SetterRun(s) \/ set_var_wait(s))
           /\ WF_vars(set_var_lock(s))

FairSpec == Init /\ [][Next]_vars /\ Fairness

\* ---------------------------------------------------------------- claims

\* A converter's read of the environment is under way (the read lock is
\* taken and the value is being fetched); a setter's write is under way.
Reading(t) == pc[t] = "var_os_read"
Writing(s) == spc[s] \in {"setenv_begin", "setenv_store"}

\* C1: a read of the environment made by rust_getenv for a conversion and
\* a write made by set_var are never under way at the same time; the read
\* holds the environment lock for reading, the write holds the same lock
\* for writing, and no read ever races a half-done write.
C1_ReadsExcludeWrites ==
    /\ \A t \in Converters : \A s \in Setters : ~(Reading(t) /\ Writing(s))
    /\ \A t \in Converters : Reading(t) => t \in readers /\ writer = {}
    /\ \A s \in Setters : Writing(s) => writer = {s} /\ readers = {}
    /\ envBusy => \E s \in Setters : spc[s] = "setenv_store"
    /\ "data_race" \notin faults

\* C1 witness: both converters are reading while the setter waits for the
\* lock.
C1_Witness ==
    /\ \A t \in Converters : Reading(t)
    /\ \E s \in Setters : spc[s] = "set_var_lock"

\* struct tm as localtime may return it.
ValidTm(c) ==
    /\ c.tm_sec \in 0..60
    /\ c.tm_min \in 0..59
    /\ c.tm_hour \in 0..23
    /\ c.tm_mday \in 1..31
    /\ c.tm_mon \in 0..11
    /\ c.tm_wday \in 0..6
    /\ c.tm_yday \in 0..365

\* C2: with converters calling localtime while a setter keeps setting TZ,
\* the carrier a lookup produced holds exactly one of the values TZ had
\* between the lookup's call and its read (absent if it was unset then),
\* and every localtime call returns a valid calendar time or an error.
C2_CarrierIsOneValue ==
    /\ \A t \in Converters :
         pc[t] = "engine_read" =>
            ReadCarrier(Unwrap(carrier[t])) \in seen[t]
    /\ \A t \in Converters :
         pc[t] = "returned" /\ op[t] = "localtime" =>
            \/ Unwrap(result[t]).kind = "Ok" /\ ValidTm(Unwrap(result[t]).tm)
            \/ Unwrap(result[t]).kind = "Err" /\ Unwrap(result[t]).err /= "0"
    /\ faults = {}

\* C2 witness: TZ was set twice while a localtime call was waiting to read
\* it, and the call now holds the carrier of one of the three values.
C2_Witness ==
    \E t \in Converters :
        /\ pc[t] = "engine_read"
        /\ op[t] = "localtime"
        /\ Cardinality(seen[t]) = 3
        /\ Unwrap(carrier[t]).capacity > 0

\* Converter positions after the engine has released its carrier.
Released == {"engine_compute", "facade_return", "returned"}

\* C3: an owned carrier is released exactly once: no release of anything
\* but a live allocation, no read of released bytes, a carrier with
\* capacity > 0 owns its live allocation until the release, and after the
\* release the engine holds no carrier and the one allocation of the call
\* has been freed once.
C3_ReleasedExactlyOnce ==
    /\ "invalid_free" \notin faults
    /\ "use_after_free" \notin faults
    /\ \A t \in Converters :
         /\ nfree[t] <= nalloc[t]
         /\ nalloc[t] <= 1
         /\ IsSome(carrier[t]) /\ Unwrap(carrier[t]).capacity > 0 =>
               OwnsAllocation(Unwrap(carrier[t])) /\ nfree[t] = 0
         /\ pc[t] \in Released => carrier[t] = None /\ nfree[t] = nalloc[t]

\* C3 witness: a conversion has released the owned carrier it was given.
C3_Witness ==
    \E t \in Converters :
        pc[t] = "engine_compute" /\ nalloc[t] = 1 /\ nfree[t] = 1

\* The addresses that hold an allocation.
LiveCells == {p \in HeapPtrs : heap[p].live}
\* The addresses owned by the carriers in the engine's hands.
CarriedCells ==
    {Unwrap(carrier[t]).ptr :
        t \in {u \in Converters : IsSome(carrier[u])
                                  /\ Unwrap(carrier[u]).capacity > 0}}

\* C4: no carrier leaks: a carrier exists only between its lookup and its
\* release inside one conversion, the live allocations are exactly those
\* of the carriers in the engine's hands, and whenever no conversion is in
\* flight there is no live allocation, as before the first conversion.
C4_NoLeak ==
    /\ LiveCells = CarriedCells
    /\ \A t \in Converters :
         IsSome(carrier[t]) => pc[t] \in {"engine_read", "engine_dealloc"}
    /\ (\A t \in Converters : pc[t] \in {"idle", "returned"}) => LiveCells = {}

\* C4 witness: no conversion is in flight, both converters have just
\* finished one that was given an owned carrier, and nothing is allocated.
C4_Witness ==
    /\ \A t \in Converters : pc[t] = "returned" /\ nalloc[t] = 1
    /\ LiveCells = {}

\* C5: the lookup of an unset variable yields the carrier (null, 0, 0),
\* the lookup of a variable set to "" yields (address of a static zero
\* byte, 1, 0); the two differ and neither allocates.
C5_AbsentAndEmpty ==
    \A t \in Converters :
        pc[t] = "engine_read" =>
           LET c == Unwrap(carrier[t])
           IN  /\ got[t] = None =>
                     /\ c.ptr = NULL /\ c.len = 0 /\ c.capacity = 0
                     /\ nalloc[t] = 0
               /\ got[t] = Some(<< >>) =>
                     /\ c.ptr /= NULL /\ c.ptr \notin HeapPtrs
                     /\ Mem(c.ptr) = <<0>>
                     /\ c.len = 1 /\ c.capacity = 0
                     /\ nalloc[t] = 0

\* C5 witness: one converter holds the carrier of an unset TZ, the other
\* the carrier of an empty TZ, and the two carriers differ.
C5_Witness ==
    \E t \in Converters : \E u \in Converters :
        /\ pc[t] = "engine_read" /\ got[t] = None
        /\ pc[u] = "engine_read" /\ got[u] = Some(<< >>)
        /\ carrier[t] /= carrier[u]
        /\ LiveCells = {}

\* After the engine has read the carrier.
CopyMade == {"engine_dealloc"} \cup Released

\* C6: for a non-empty value V the carrier has len = |V| + 1, its first
\* |V| bytes are V, its last byte is the one terminating zero and its
\* capacity is positive; the engine's copy, read back without the
\* terminator, is V.
C6_CarrierRoundTrip ==
    \A t \in Converters :
        IsSome(got[t]) /\ Unwrap(got[t]) /= << >> =>
           LET v == Unwrap(got[t])
           IN  /\ pc[t] = "engine_read" =>
                     LET c == Unwrap(carrier[t])
                     IN  /\ c.len = Len(v) + 1
                         /\ Len(Mem(c.ptr)) = c.len
                         /\ SubSeq(Mem(c.ptr), 1, Len(v)) = v
                         /\ Mem(c.ptr)[c.len] = 0
                         /\ c.capacity > 0
                         /\ c.capacity >= c.len
               /\ pc[t] \in CopyMade => tzcopy[t] = Some(v)

\* C6 witness: the engine has copied a two-byte value out of its carrier.
C6_Witness ==
    \E t \in Converters :
        pc[t] = "engine_dealloc" /\ tzcopy[t] = Some(<<1, 2>>)

\* C7: localtime returns Err with the thread's last OS error exactly when
\* the engine returned null, and Ok with the struct the engine filled
\* otherwise; a failure of the engine never shows as anything but Err.
C7_ErrIffNull ==
    /\ \A t \in Converters :
         pc[t] = "returned" /\ op[t] = "localtime" =>
            LET r == Unwrap(result[t])
                e == Unwrap(ret[t])
            IN  /\ r.kind \in {"Ok", "Err"}
                /\ r.kind = "Err" <=> e.null
                /\ r.kind = "Err" => r.err = errno[t] /\ r.err /= "0"
                /\ r.kind = "Ok" => r.tm = tm[t] /\ r.tm /= ZeroedTm
    /\ faults = {}

\* C7 witness: a localtime call on a time beyond the engine's range has
\* returned Err.
C7_Witness ==
    \E t \in Converters :
        /\ pc[t] = "returned" /\ op[t] = "localtime"
        /\ sec[t] = FarFuture
        /\ Unwrap(ret[t]).null
        /\ Unwrap(result[t]).kind = "Err"

\* C8: timegm and mktime work on their own copy: from the call to the
\* return the caller's calendar value does not change, and the step in
\* which the engine rewrites the copy changes no calendar value of any
\* other conversion or caller.
C8_CallerTmUnchanged ==
    [][\A t \in Converters :
          /\ pc[t] \notin {"idle", "returned"} => arg'[t] = arg[t]
          /\ pc[t] = "engine_compute" /\ pc'[t] = "facade_return" =>
                /\ time' = time
                /\ \A u \in Converters \ {t} :
                      tm'[u] = tm[u] /\ arg'[u] = arg[u]]_vars

\* C8 witness: the engine has normalised the copy of a calendar time with
\* second 60, the caller's value still has it, and the other converter is
\* inside a conversion of its own.
C8_Witness ==
    \E t \in Converters : \E u \in Converters \ {t} :
        /\ pc[t] = "facade_return" /\ op[t] \in {"timegm", "mktime"}
        /\ arg[t] = CarrySecTm
        /\ tm[t] /= arg[t]
        /\ tm[t].tm_sec = 0
        /\ pc[u] = "facade_return" /\ op[u] \in {"timegm", "mktime"}

\* C9: round trip under UTC: timegm of the calendar time localtime gave
\* for E while TZ was "" returns E; for the epoch it returns 0.
C9_RoundTripUTC ==
    \A t \in Converters :
        /\ pc[t] = "returned" /\ op[t] = "timegm"
        /\ IsSome(time[t])
        /\ Unwrap(time[t]).tz = Some(<< >>)
        /\ arg[t] = Unwrap(time[t]).tm
        => /\ Unwrap(result[t]).kind = "time_t"
           /\ Unwrap(result[t]).time = Unwrap(time[t]).sec
           /\ Unwrap(time[t]).sec = Epoch0 => TimeVal(Unwrap(result[t]).time) = 0

\* C9 witness: timegm has returned for the calendar time localtime gave
\* under UTC for the leap day of 2000, a time other than the epoch.
C9_Witness ==
    \E t \in Converters :
        /\ pc[t] = "returned" /\ op[t] = "timegm"
        /\ IsSome(time[t])
        /\ Unwrap(time[t]).tz = Some(<< >>)
        /\ Unwrap(time[t]).sec = LeapDay
        /\ arg[t] = Unwrap(time[t]).tm

\* C10: localtime(0) whose lookup found TZ set to "" succeeds with
\* 1970-01-01 00:00:00, a Thursday, day 0 of the year, offset 0 and a
\* daylight flag that is not positive, whatever a setter is doing.
C10_EpochUTC ==
    \A t \in Converters :
        /\ pc[t] = "returned" /\ op[t] = "localtime"
        /\ sec[t] = Epoch0
        /\ got[t] = Some(<< >>)
        => /\ Unwrap(result[t]).kind = "Ok"
           /\ LET c == Unwrap(result[t]).tm
              IN  /\ c.tm_sec = 0 /\ c.tm_min = 0 /\ c.tm_hour = 0
                  /\ c.tm_mday = 1 /\ c.tm_mon = 0 /\ c.tm_year = 70
                  /\ c.tm_wday = 4 /\ c.tm_yday = 0
                  /\ c.tm_gmtoff = 0
                  /\ c.tm_isdst < 1

\* C10 witness: localtime(0) has returned under an empty TZ while the
\* setter is in the middle of setting TZ to "" again.
C10_Witness ==
    \E t \in Converters : \E s \in Setters :
        /\ pc[t] = "returned" /\ op[t] = "localtime"
        /\ sec[t] = Epoch0
        /\ got[t] = Some(<< >>)
        /\ env[TZ] = Some(<< >>)
        /\ spc[s] = "setenv_store" /\ sval[s] = << >>

\* Positions of a converter inside std::env::var_os, holding the read guard.
HoldsRead == {"var_os_read", "var_os_unlock"}
\* Positions of a setter inside std::env::set_var, holding the write guard.
HoldsWrite == {"setenv_begin", "setenv_store", "set_var_unlock"}

LockOnlyInAccessor ==
    /\ \A t \in Converters : t \in readers <=> pc[t] \in HoldsRead
    /\ \A s \in Setters : s \in writer <=> spc[s] \in HoldsWrite

\* Some call is under way.
InCall ==
    \/ \E t \in Converters : pc[t] \notin {"idle", "returned"}
    \/ \E s \in Setters : spc[s] /= "idle"

\* Some thread inside a call can take its next step.
CanStep ==
    \/ \E t \in Converters : ENABLED (ConverterRun(t) \/ var_os_lock(t))
    \/ \E s \in Setters :
          ENABLED (SetterRun(s) \/ set_var_lock(s) \/ set_var_wait(s))

\* A facade call is left only through its return.
LeftByReturn ==
    \A t \in Converters :
        (pc[t] /= "idle" /\ pc'[t] = "idle") => pc[t] = "returned"

\* No converter begins a call.
NoNewConversion == \A t \in Converters : pc[t] = "idle" => pc'[t] = "idle"

\* Every conversion that has begun returns; every set_var that has begun
\* returns.
ConversionsReturn ==
    \A t \in Converters : []<>(pc[t] \in {"idle", "returned"})
SetVarsReturn == \A s \in Setters : []<>(spc[s] = "idle")

\* The lock is not denied for ever to a thread that could take it again
\* and again: an acquisition order std's lock does not promise.
LockFairness ==
    /\ \A t \in Converters : SF_vars(var_os_lock(t))
    /\ \A s \in Setters : SF_vars(set_var_lock(s))

ReleaseStep(t) == pc[t] = "engine_dealloc" /\ pc'[t] = "engine_compute"

\* C12: releasing a carrier of capacity 0 (absent or static-empty) changes
\* no allocation state; releasing one of capacity > 0 frees exactly the
\* live allocation made for it at construction, whose length and capacity
\* are the len and capacity the carrier records, and nothing else.
C12_ReleaseExact ==
    [][\A t \in Converters :
         ReleaseStep(t) =>
            LET c == Unwrap(carrier[t])
            IN  IF c.capacity = 0
                THEN /\ c.ptr \in {NULL, EMPTY}
                     /\ heap' = heap /\ nfree' = nfree /\ faults' = faults
                ELSE /\ c.ptr \in HeapPtrs
                     /\ heap[c.ptr].live
                     /\ heap[c.ptr].bytes = Append(Unwrap(got[t]), 0)
                     /\ c.len = Len(heap[c.ptr].bytes)
                     /\ c.capacity = heap[c.ptr].cap
                     /\ heap' = [heap EXCEPT ![c.ptr] = FreeCell]
                     /\ nfree' = [nfree EXCEPT ![t] = @ + 1]
                     /\ faults' = faults]_vars

\* One converter has released an owned carrier and the other a
\* static-empty one.
C12_Witness ==
    \E t, u \in Converters :
        /\ pc[t] = "engine_compute" /\ NeedsBuffer(got[t]) /\ nfree[t] = 1
        /\ pc[u] = "engine_compute" /\ got[u] = Some(<< >>) /\ nfree[u] = 0

\* Positions of a converter inside rust_getenv.
InGetenv == {"var_os_lock", "var_os_read", "var_os_unlock", "into"}

\* The step of converter t in which its lookup gets the variable's value.
LookupStep(t) ==
    \/ pc[t] = "var_os_read" /\ pc'[t] = "var_os_unlock"
    \/ pc[t] = "var_os_lock" /\ pc'[t] = "into"

\* C13: rust_getenv never fails and never mutates the environment, whatever
\* name it is called with (the bytes at name up to name_len, be they a
\* variable's name, empty, or with a NUL or a '=' among them): none of its
\* steps changes the environment map or faults; the lookup of the name of a
\* variable yields that variable's value as it is, absent when it is unset,
\* and the lookup of a name that is no variable's and holds no '=' yields
\* absent; the call returns a carrier of what the lookup yielded, the null
\* carrier exactly when that is absent.
C13_GetenvReadsOnly ==
    [][\A t \in Converters :
         (pc[t] \in InGetenv /\ pc'[t] /= pc[t]) =>
            LET n == SubSeq(name[t].buf, 1, name[t].len)
            IN  /\ env' = env /\ envBusy' = envBusy
                /\ faults' = faults
                /\ pc'[t] \in InGetenv \cup {"engine_read"}
                /\ LookupStep(t) =>
                      /\ n \in EnvVars => got'[t] = env[n]
                      /\ (n \notin EnvVars /\ \A i \in 1..Len(n) : n[i] /= EQ)
                            => got'[t] = None
                /\ pc[t] = "into" =>
                      /\ pc'[t] = "engine_read"
                      /\ IsSome(carrier'[t])
                      /\ got[t] = None <=> Unwrap(carrier'[t]) = COsString_null
                      /\ (ReadCarrier(Unwrap(carrier[t])) = got[t])']_vars

\* rust_getenv has returned the null carrier for a name that is no
\* variable's ("T", the first byte of b"TZ\0") to one caller and an owned
\* carrier of the value of A to the other, and the environment is as it
\* was when the process started.
C13_Witness ==
    \E t, u \in Converters :
        /\ pc[t] = "engine_read" /\ op[t] = "rust_getenv"
        /\ name[t] = [buf |-> <<84, 90, NUL>>, len |-> 1]
        /\ carrier[t] = Some(COsString_null)
        /\ pc[u] = "engine_read" /\ op[u] = "rust_getenv"
        /\ name[u] = [buf |-> <<65, EQ, 66>>, len |-> 1]
        /\ Unwrap(carrier[u]).capacity > 0
        /\ ReadCarrier(Unwrap(carrier[u])) = Some(VarAValue)
        /\ env[VarA] = Some(VarAValue)

\* Converter t holds the Ok result of a localtime call.
LocaltimeDone(t) ==
    /\ pc[t] = "returned"
    /\ op[t] = "localtime"
    /\ Unwrap(result[t]).kind = "Ok"

\* The calendar times successful localtime calls have returned, each with
\* the epoch of the call and the TZ value its lookup obtained: the results
\* the converters hold and the ones their callers kept.
Outcomes ==
    {[tm |-> Unwrap(result[t]).tm, sec |-> sec[t], tz |-> got[t]] :
        t \in {u \in Converters : LocaltimeDone(u)}}
    \cup {Unwrap(time[t]) : t \in {u \in Converters : IsSome(time[u])}}

\* From the engine's filling of the struct to the facade's return.
Filled(t) == pc[t] = "facade_return" /\ op[t] = "localtime"

\* C14: the calendar time of a successful localtime(E) depends on E and on
\* the TZ value its own lookup obtained, and on nothing else: any two
\* successful calls, of one thread or of two, at the same time or one after
\* the other, with the same E and the same looked-up value return the same
\* calendar time in every field; and from the moment the engine has filled
\* a call's struct to the call's return no step of another thread (a
\* conversion, a change of the environment) changes that struct.
C14_Deterministic ==
    /\ [](\A a, b \in Outcomes :
            (a.sec = b.sec /\ a.tz = b.tz) => a.tm = b.tm)
    /\ [][\A t \in Converters :
            (Filled(t) /\ pc'[t] = pc[t])
            => tm'[OutLocal(t)] = tm[OutLocal(t)]]_vars

\* The caller of one converter kept the calendar time of the leap day
\* under TZ = <<1, 2>>; TZ has been set to "" since; and now both
\* converters hold the result of localtime for the leap day under the value
\* <<1, 2>>, all three the same and two hours ahead of UTC.
C14_Witness ==
    \E t, u \in Converters :
        /\ t /= u
        /\ LocaltimeDone(t) /\ LocaltimeDone(u)
        /\ sec[t] = LeapDay /\ sec[u] = LeapDay
        /\ got[t] = Some(<<1, 2>>) /\ got[u] = got[t]
        /\ IsSome(time[t])
        /\ Unwrap(time[t]).sec = LeapDay /\ Unwrap(time[t]).tz = got[t]
        /\ env[TZ] = Some(<< >>)
        /\ Unwrap(result[t]).tm.tm_hour = 2
        /\ Unwrap(result[u]).tm = Unwrap(result[t]).tm
        /\ Unwrap(time[t]).tm = Unwrap(result[t]).tm

\* The carriers in existence: those a converter's engine holds.
Carriers == {Unwrap(carrier[t]) : t \in {u \in Converters : IsSome(carrier[u])}}

Absent(c) == c.ptr = NULL /\ c.len = 0 /\ c.capacity = 0
StaticEmpty(c) == c.ptr = EMPTY /\ c.len = 1 /\ c.capacity = 0
Owned(c) == c.ptr \in HeapPtrs /\ c.len >= 2 /\ c.capacity >= c.len

\* C15: every carrier is absent (null, len 0, capacity 0), static-empty
\* (the static byte, len 1, capacity 0) or owned (a heap address, len >= 2,
\* capacity >= len); so capacity > 0 exactly when it owns a live heap
\* allocation, the pointer is null exactly when len is 0, and every
\* non-null carrier has a zero byte at index len - 1.
C15_CarrierShape ==
    \A c \in Carriers :
        /\ Absent(c) \/ StaticEmpty(c) \/ Owned(c)
        /\ c.capacity > 0 <=> (c.ptr \in HeapPtrs /\ heap[c.ptr].live)
        /\ c.ptr = NULL <=> c.len = 0
        /\ c.ptr /= NULL =>
              /\ Len(Mem(c.ptr)) >= c.len
              /\ Mem(c.ptr)[c.len] = 0

\* An owned carrier of a two-byte value and a static-empty carrier exist
\* together.
C15_Witness ==
    \E c, d \in Carriers :
        /\ Owned(c) /\ c.len = 3 /\ c.capacity = 8
        /\ StaticEmpty(d)

\* Converter t's engine holds an owned carrier.
HoldsOwned(t) == IsSome(carrier[t]) /\ Unwrap(carrier[t]).ptr \in HeapPtrs

\* C16: each lookup of a non-empty value makes a fresh allocation: no two
\* owned carriers in existence share a pointer; and while an engine holds
\* an owned carrier, no step of any thread (another converter's lookup or
\* release, a change of the environment) frees its allocation or changes
\* its bytes.
C16_FreshAllocation ==
    /\ [](\A t, u \in Converters :
            (t /= u /\ HoldsOwned(t) /\ HoldsOwned(u))
            => Unwrap(carrier[t]).ptr /= Unwrap(carrier[u]).ptr)
    /\ [][\A t \in Converters :
            (HoldsOwned(t) /\ carrier'[t] = carrier[t])
            => /\ heap[Unwrap(carrier[t]).ptr].live
               /\ heap[Unwrap(carrier[t]).ptr].bytes = Append(Unwrap(got[t]), 0)
               /\ heap'[Unwrap(carrier[t]).ptr] =
                     heap[Unwrap(carrier[t]).ptr]]_vars

\* One converter has released its owned carrier and TZ has been set to
\* another value, while the other converter's engine has yet to read the
\* owned carrier it holds.
C16_Witness ==
    \E t, u \in Converters :
        /\ pc[t] = "engine_compute" /\ nfree[t] = 1
        /\ pc[u] = "engine_read" /\ HoldsOwned(u)
        /\ env[TZ] = Some(<< >>)
        /\ heap[Unwrap(carrier[u]).ptr].bytes = <<1, 2, 0>>

====
